---- MODULE Spec2Model ----
(***************************************************************************)
(* Investigation Board: the graph store of the host application            *)
(* (mergeGraphData, src/App.tsx) and the force-directed board component    *)
(* (MindMap, src/unnamed/part_005).                                        *)
(*                                                                         *)
(* Numbers.  The board computes in IEEE doubles.  Here simulation          *)
(* coordinates and velocities are fixed-point integers in units of         *)
(* 1/Scale; pointer coordinates and pan are whole pixels; zoom is counted  *)
(* in tenths.  Quotients are rounded towards zero.                         *)
(***************************************************************************)
EXTENDS Integers, Sequences, FiniteSets, TLC

\* ------------------------------------------------------------------ bounds
MaxSnapNodes == 2
MaxSnapEdges == 2

\* -------------------------------------------------------------- data model
\* A property that is absent from an object reads as undefined.
Undef == "undefined"

\* MindMapNode as delivered by the analysis service (x, y are optional; an
\* absent coordinate and the coordinate 0 are both falsy, so 0 stands for
\* both).
DataNode(id, label) == [id |-> id, label |-> label, x |-> 0, y |-> 0]

\* MindMapEdge
DataEdge(s, t, r) == [source |-> s, target |-> t, relation |-> r]

\* MindMapData | null.  hasNodes / hasEdges say whether the property is an
\* array (Array.isArray); a null value has isNull = TRUE.
Graph(ns, es) ==
  [isNull |-> FALSE, hasNodes |-> TRUE, nodes |-> ns, hasEdges |-> TRUE, edges |-> es]
NullData ==
  [isNull |-> TRUE, hasNodes |-> FALSE, nodes |-> <<>>, hasEdges |-> FALSE, edges |-> <<>>]
NoArrays ==
  [isNull |-> FALSE, hasNodes |-> FALSE, nodes |-> <<>>, hasEdges |-> FALSE, edges |-> <<>>]

\* -------------------------------------------------- mergeGraphData (App.tsx)
\* pn.id === n.id || pn.label === n.label
NodeMatches_IdAndLabel(pn, n) == pn.id = n.id /\ pn.label = n.label
NodeMatches_SameLabel(pn, n) == pn.label = n.label
NodeMatches(pn, n) == pn.id = n.id \/ pn.label = n.label

\* pe.source === e.source && pe.target === e.target
EdgeMatches_WithRelation(pe, e) ==
  pe.source = e.source /\ pe.target = e.target /\ pe.relation = e.relation
EdgeMatches(pe, e) == pe.source = e.source /\ pe.target = e.target

\* newNodes.find(pn => ...) is truthy
FindNode(newNodes, n) == \E i \in 1..Len(newNodes) : NodeMatches(newNodes[i], n)
FindEdge(newEdges, e) == \E i \in 1..Len(newEdges) : EdgeMatches(newEdges[i], e)

\* newData.nodes.forEach(n => { if (!newNodes.find(...)) newNodes.push(n) })
RECURSIVE PushNodes_Upsert(_, _, _)
PushNodes_Upsert(newNodes, incoming, k) ==
  IF k > Len(incoming) THEN newNodes
  ELSE PushNodes_Upsert(
         IF FindNode(newNodes, incoming[k])
           THEN [i \in 1..Len(newNodes) |->
                   IF NodeMatches(newNodes[i], incoming[k]) THEN incoming[k]
                   ELSE newNodes[i]]
           ELSE Append(newNodes, incoming[k]),
         incoming, k + 1)
RECURSIVE PushNodes(_, _, _)
PushNodes(newNodes, incoming, k) ==
  IF k > Len(incoming) THEN newNodes
  ELSE PushNodes(IF FindNode(newNodes, incoming[k]) THEN newNodes
                 ELSE Append(newNodes, incoming[k]),
                 incoming, k + 1)

\* newData.edges.forEach(e => { if (!newEdges.find(...)) newEdges.push(e) })
RECURSIVE PushEdges(_, _, _)
PushEdges(newEdges, incoming, k) ==
  IF k > Len(incoming) THEN newEdges
  ELSE PushEdges(IF FindEdge(newEdges, incoming[k]) THEN newEdges
                 ELSE Append(newEdges, incoming[k]),
                 incoming, k + 1)

\* const newNodes = [...prevNodes]; const newEdges = [...prevEdges]
CopyArray_Fresh(prevArray) == <<>>
CopyArray(prevArray) == prevArray

\* The updater passed to setMindMapData: prev => { ... }
mergeGraphData(prev, newData) ==
  LET prevNodes == IF prev.isNull THEN <<>> ELSE prev.nodes
      prevEdges == IF prev.isNull THEN <<>> ELSE prev.edges
  IN IF newData.isNull THEN Graph(prevNodes, prevEdges)
     ELSE Graph(IF newData.hasNodes
                  THEN PushNodes(CopyArray(prevNodes), newData.nodes, 1)
                  ELSE CopyArray(prevNodes),
                IF newData.hasEdges
                  THEN PushEdges(CopyArray(prevEdges), newData.edges, 1)
                  ELSE CopyArray(prevEdges))

\* ----------------------------------------------- snapshots of the service
SeqsUpTo(S, n) == UNION {[1..k -> S] : k \in 0..n}

NodeUniverse ==
  {DataNode("a", "Alice"), DataNode("b", "Bob"), DataNode("b", "Alice")}

EdgeUniverse ==
  {DataEdge("a", "b", "knows"), DataEdge("a", "b", "accuses"),
   DataEdge("b", "a", "knows")}

SnapshotUniverse ==
  {NullData, NoArrays}
    \cup {Graph(ns, es) : ns \in SeqsUpTo(NodeUniverse, MaxSnapNodes),
                          es \in SeqsUpTo(EdgeUniverse, MaxSnapEdges)}

\* ------------------------------------------------------ fixed-point numbers
\* Simulation coordinates and velocities are held in units of 1/Scale.
Scale == 10

\* Quotient rounded towards zero (b > 0).
TDiv(a, b) == IF a >= 0 THEN a \div b ELSE -((-a) \div b)

\* Math.sqrt, rounded down.
RECURSIVE SqrtIter(_, _, _)
SqrtIter(n, lo, hi) ==
  IF lo >= hi THEN lo
  ELSE LET mid == (lo + hi + 1) \div 2
       IN IF mid * mid <= n THEN SqrtIter(n, mid, hi) ELSE SqrtIter(n, lo, mid - 1)
Sqrt(n) == SqrtIter(n, 0, 46340)

\* Math.cos(0.5 * i) and Math.sin(0.5 * i) in units of 1/10000.
CosHalf(i) ==
  CASE i = 0 -> 10000 [] i = 1 -> 8776 [] i = 2 -> 5403 [] i = 3 -> 707
    [] i = 4 -> -4161 [] i = 5 -> -8011 [] i = 6 -> -9900 [] OTHER -> -9365
SinHalf(i) ==
  CASE i = 0 -> 0 [] i = 1 -> 4794 [] i = 2 -> 8415 [] i = 3 -> 9975
    [] i = 4 -> 9093 [] i = 5 -> 5985 [] i = 6 -> 1411 [] OTHER -> -3508

\* ------------------------------------------- physics constants of simulate
repulsion == 200000
kPercent == 2
centerGravityPermille == 2
dampingTenths == 8
maxVelocity == 15
idealLength == 100
\* if (distSq < 100) distSq = 100
minDistSq == 100

\* Record of the node buffer: a MindMapNode with its simulation state.
SimNode(n, x, y) ==
  [id |-> n.id, label |-> n.label, x |-> x, y |-> y, vx |-> 0, vy |-> 0]

\* draggedNodeId === null
NoId == "null"

Vec(x, y) == [x |-> x, y |-> y]

\* A. Repulsion of node i by node j (both read from the frame's copy).
RepulsionOn_SmallFloor(ns, i, j) ==
  LET dx == ns[i].x - ns[j].x
      dy == ns[i].y - ns[j].y
      raw == dx * dx + dy * dy
      distSq == IF raw < Scale * Scale THEN Scale * Scale ELSE raw
      dist == Sqrt(distSq)
      force == TDiv(repulsion * Scale * Scale * Scale * 10, distSq)
  IN Vec(TDiv(dx * force, dist * 10), TDiv(dy * force, dist * 10))
RepulsionOn(ns, i, j) ==
  LET dx == ns[i].x - ns[j].x
      dy == ns[i].y - ns[j].y
      raw == dx * dx + dy * dy
      distSq == IF raw < minDistSq * Scale * Scale
                  THEN minDistSq * Scale * Scale ELSE raw
      dist == Sqrt(distSq)
      force == TDiv(repulsion * Scale * Scale * Scale * 10, distSq)
  IN Vec(TDiv(dx * force, dist * 10), TDiv(dy * force, dist * 10))

RECURSIVE RepulsionSum(_, _, _)
RepulsionSum(ns, i, j) ==
  IF j > Len(ns) THEN Vec(0, 0)
  ELSE LET rest == RepulsionSum(ns, i, j + 1)
           f == IF i = j THEN Vec(0, 0) ELSE RepulsionOn(ns, i, j)
       IN Vec(f.x + rest.x, f.y + rest.y)

\* newNodes.find(n => n.id === id): index of the first node with that id,
\* 0 when there is none.
FindById_FirstWhenMissing(ns, id) ==
  IF \E j \in 1..Len(ns) : ns[j].id = id
    THEN CHOOSE j \in 1..Len(ns) :
           ns[j].id = id /\ \A h \in 1..(j - 1) : ns[h].id # id
    ELSE 1
FindById(ns, id) ==
  IF \E j \in 1..Len(ns) : ns[j].id = id
    THEN CHOOSE j \in 1..Len(ns) :
           ns[j].id = id /\ \A h \in 1..(j - 1) : ns[h].id # id
    ELSE 0

\* B. Spring tension of one edge on node i.
SpringOn(ns, i, edge) ==
  LET o == IF edge.source = ns[i].id THEN FindById(ns, edge.target)
           ELSE IF edge.target = ns[i].id THEN FindById(ns, edge.source)
           ELSE 0
  IN IF o = 0 THEN Vec(0, 0)
     ELSE LET dx == ns[o].x - ns[i].x
              dy == ns[o].y - ns[i].y
              dist == Sqrt(dx * dx + dy * dy)
              displacement == dist - idealLength * Scale
          IN IF dist > 0
               THEN Vec(TDiv(dx * displacement * kPercent, dist * 100),
                        TDiv(dy * displacement * kPercent, dist * 100))
               ELSE Vec(0, 0)

RECURSIVE SpringSum(_, _, _, _)
SpringSum(ns, i, edges, e) ==
  IF e > Len(edges) THEN Vec(0, 0)
  ELSE LET rest == SpringSum(ns, i, edges, e + 1)
           f == SpringOn(ns, i, edges[e])
       IN Vec(f.x + rest.x, f.y + rest.y)

\* C. Center gravity on node i.
GravityOn(ns, i, cx, cy) ==
  Vec(TDiv((cx - ns[i].x) * centerGravityPermille, 1000),
      TDiv((cy - ns[i].y) * centerGravityPermille, 1000))

Clamp(v) ==
  IF v > maxVelocity * Scale THEN maxVelocity * Scale
  ELSE IF v < -(maxVelocity * Scale) THEN -(maxVelocity * Scale)
  ELSE v

\* if (node.id !== draggedNodeId), draggedNodeId being the value the loop's
\* closure holds.
Integrates(id, dragged) == id # dragged

\* D. Update velocity and position of node i.
Integrate(ns, i, edges, dragged, cx, cy) ==
  LET node == ns[i]
      a == RepulsionSum(ns, i, 1)
      b == SpringSum(ns, i, edges, 1)
      c == GravityOn(ns, i, cx, cy)
      fx == a.x + b.x + c.x
      fy == a.y + b.y + c.y
      vx == Clamp(TDiv((node.vx + fx) * dampingTenths, 10))
      vy == Clamp(TDiv((node.vy + fy) * dampingTenths, 10))
  IN IF Integrates(node.id, dragged)
       THEN [node EXCEPT !.vx = vx, !.vy = vy, !.x = node.x + vx, !.y = node.y + vy]
       ELSE node

\* newNodes.forEach((node, i) => ...): the nodes are updated in array order
\* in the frame's copy, so node i sees the new positions of the nodes before
\* it.
RECURSIVE SimulateFrom(_, _, _, _, _, _)
SimulateFrom(ns, i, edges, dragged, cx, cy) ==
  IF i > Len(ns) THEN ns
  ELSE SimulateFrom([ns EXCEPT ![i] = Integrate(ns, i, edges, dragged, cx, cy)],
                    i + 1, edges, dragged, cx, cy)

\* The updater simulate passes to setNodes.
Simulate_FromOldPositions(prevNodes, edges, dragged, cx, cy) ==
  [i \in 1..Len(prevNodes) |-> Integrate(prevNodes, i, edges, dragged, cx, cy)]
Simulate(prevNodes, edges, dragged, cx, cy) ==
  SimulateFrom(prevNodes, 1, edges, dragged, cx, cy)

\* --------------------------------------- simulate over the whole of number
\* A JavaScript number by magnitude: "fin" is n/Scale as above; "big" is a
\* finite number n * 10^197 (n # 0), whose square exceeds the largest number;
\* "inf" is Infinity with sign n; "nan" is NaN.
Fin(n) == [c |-> "fin", n |-> n]
Big(n) == [c |-> "big", n |-> n]
Inf(sign) == [c |-> "inf", n |-> sign]
NaN == [c |-> "nan", n |-> 0]

Sgn(n) == IF n > 0 THEN 1 ELSE IF n < 0 THEN -1 ELSE 0

NumNeg(a) == IF a.c = "nan" THEN NaN ELSE [a EXCEPT !.n = -a.n]

\* a + b: NaN spreads, Infinity - Infinity is NaN, a big number absorbs an
\* ordinary one.
NumAdd(a, b) ==
  IF a.c = "nan" \/ b.c = "nan" THEN NaN
  ELSE IF a.c = "inf" /\ b.c = "inf" THEN (IF a.n = b.n THEN a ELSE NaN)
  ELSE IF a.c = "inf" THEN a
  ELSE IF b.c = "inf" THEN b
  ELSE IF a.c = "big" /\ b.c = "big"
    THEN (IF a.n + b.n = 0 THEN Fin(0) ELSE Big(a.n + b.n))
  ELSE IF a.c = "big" THEN a
  ELSE IF b.c = "big" THEN b
  ELSE Fin(a.n + b.n)

NumSub(a, b) == NumAdd(a, NumNeg(b))

\* a * (num / den) for a positive constant below 1; a big number stays big.
NumScale(a, num, den) ==
  IF a.c = "fin" THEN Fin(TDiv(a.n * num, den))
  ELSE IF a.c = "big"
    THEN (IF TDiv(a.n * num, den) = 0 THEN Big(Sgn(a.n))
          ELSE Big(TDiv(a.n * num, den)))
  ELSE a

\* if (v > maxVelocity) v = maxVelocity; if (v < -maxVelocity) v = -maxVelocity:
\* both comparisons are false for NaN.
ClampNumber(v) ==
  IF v.c = "nan" THEN NaN
  ELSE IF v.c = "fin" THEN Fin(Clamp(v.n))
  ELSE Fin(Sgn(v.n) * maxVelocity * Scale)

NumVec(v) == Vec(Fin(v.x), Fin(v.y))

\* A. Repulsion.  With dx or dy NaN every term is NaN.  With dx or dy big,
\* distSq and dist are Infinity, force is 0 and dx / dist is 0.
NumRepulsionOn(ns, i, j) ==
  LET dx == NumSub(ns[i].x, ns[j].x)
      dy == NumSub(ns[i].y, ns[j].y)
  IN IF dx.c = "nan" \/ dy.c = "nan" THEN Vec(NaN, NaN)
     ELSE IF dx.c = "fin" /\ dy.c = "fin"
       THEN NumVec(RepulsionOn(<<Vec(dx.n, dy.n), Vec(0, 0)>>, 1, 2))
     ELSE Vec(Fin(0), Fin(0))

RECURSIVE NumRepulsionSum(_, _, _)
NumRepulsionSum(ns, i, j) ==
  IF j > Len(ns) THEN Vec(Fin(0), Fin(0))
  ELSE LET rest == NumRepulsionSum(ns, i, j + 1)
           f == IF i = j THEN Vec(Fin(0), Fin(0)) ELSE NumRepulsionOn(ns, i, j)
       IN Vec(NumAdd(f.x, rest.x), NumAdd(f.y, rest.y))

\* B. Spring.  With dx or dy NaN, dist is NaN and (dist > 0) is false.  With
\* dx or dy big, dist, displacement and force are Infinity, dx / dist is 0
\* and 0 * Infinity is NaN.
NumSpringOn(ns, i, edge) ==
  LET o == IF edge.source = ns[i].id THEN FindById(ns, edge.target)
           ELSE IF edge.target = ns[i].id THEN FindById(ns, edge.source)
           ELSE 0
  IN IF o = 0 THEN Vec(Fin(0), Fin(0))
     ELSE LET dx == NumSub(ns[o].x, ns[i].x)
              dy == NumSub(ns[o].y, ns[i].y)
          IN IF dx.c = "nan" \/ dy.c = "nan" THEN Vec(Fin(0), Fin(0))
             ELSE IF dx.c = "fin" /\ dy.c = "fin"
               THEN NumVec(SpringOn(<<[id |-> "node", x |-> 0, y |-> 0],
                                      [id |-> "other", x |-> dx.n, y |-> dy.n]>>,
                                    1, [source |-> "node", target |-> "other"]))
             ELSE Vec(NaN, NaN)

RECURSIVE NumSpringSum(_, _, _, _)
NumSpringSum(ns, i, edges, e) ==
  IF e > Len(edges) THEN Vec(Fin(0), Fin(0))
  ELSE LET rest == NumSpringSum(ns, i, edges, e + 1)
           f == NumSpringOn(ns, i, edges[e])
       IN Vec(NumAdd(f.x, rest.x), NumAdd(f.y, rest.y))

\* C. Center gravity.
NumGravityOn(ns, i, cx, cy) ==
  Vec(NumScale(NumSub(Fin(cx), ns[i].x), centerGravityPermille, 1000),
      NumScale(NumSub(Fin(cy), ns[i].y), centerGravityPermille, 1000))

\* D. Update velocity and position.
NumIntegrate(ns, i, edges, dragged, cx, cy) ==
  LET node == ns[i]
      a == NumRepulsionSum(ns, i, 1)
      b == NumSpringSum(ns, i, edges, 1)
      c == NumGravityOn(ns, i, cx, cy)
      fx == NumAdd(NumAdd(a.x, b.x), c.x)
      fy == NumAdd(NumAdd(a.y, b.y), c.y)
      vx == ClampNumber(NumScale(NumAdd(node.vx, fx), dampingTenths, 10))
      vy == ClampNumber(NumScale(NumAdd(node.vy, fy), dampingTenths, 10))
  IN IF Integrates(node.id, dragged)
       THEN [node EXCEPT !.vx = vx, !.vy = vy,
                         !.x = NumAdd(node.x, vx), !.y = NumAdd(node.y, vy)]
       ELSE node

RECURSIVE NumSimulateFrom(_, _, _, _, _, _)
NumSimulateFrom(ns, i, edges, dragged, cx, cy) ==
  IF i > Len(ns) THEN ns
  ELSE NumSimulateFrom([ns EXCEPT ![i] = NumIntegrate(ns, i, edges, dragged, cx, cy)],
                       i + 1, edges, dragged, cx, cy)

\* simulate's updater on a buffer of such numbers.
NumSimulate(prevNodes, edges, dragged, cx, cy) ==
  NumSimulateFrom(prevNodes, 1, edges, dragged, cx, cy)

\* ------------------------------------------------------------ environment
\* Browser window and the canvas element (containerRef) in pixels.
InnerWidth == 1000
InnerHeight == 800
ClientWidth == 900
ClientHeight == 700
RectLeft == 20
RectTop == 64
\* Bounds on the length of a run.
MaxTicks == 2
MaxGestures == 1
MaxZoomClicks == 24
MaxSessionGestures == 2
MaxDeepDives == 1
SettleTicks == 300
MaxStabilityTicks == 3

\* Pointer positions (clientX, clientY) the mouse visits over the canvas.
Pointers == {Vec(120, 164), Vec(260, 214)}

\* Snapshots the service delivers while the board is in use.
BoardSnapshots ==
  {NullData,
   Graph(<<DataNode("a", "Alice")>>, <<>>),
   Graph(<<DataNode("a", "Alice"), DataNode("b", "Bob")>>,
         <<DataEdge("a", "b", "knows")>>)}

\* ------------------------------------------------------------------ heap
\* The store's objects by address: a sequence of cells, the address of a cell
\* being its index; prev and snap are the addresses of the graph the store
\* holds and of the snapshot being merged, 0 for null.
EmptyHeap == [mem |-> <<>>, prev |-> 0, snap |-> 0]

\* An array object and a { nodes, edges } object; a property that is an
\* array holds the address of the array.
ArrayCell(items) ==
  [kind |-> "array", items |-> items,
   hasNodes |-> FALSE, nodes |-> 0, hasEdges |-> FALSE, edges |-> 0]
GraphCell(hasNodes, nodesAt, hasEdges, edgesAt) ==
  [kind |-> "graph", items |-> <<>>,
   hasNodes |-> hasNodes, nodes |-> nodesAt, hasEdges |-> hasEdges, edges |-> edgesAt]

\* A new object: the heap with the cell added, and the address it got.
Alloc(mem, cell) == [mem |-> Append(mem, cell), at |-> Len(mem) + 1]

\* The graph value an address stands for.
Deref(mem, at) ==
  IF at = 0 THEN NullData
  ELSE [isNull |-> FALSE,
        hasNodes |-> mem[at].hasNodes,
        nodes |-> IF mem[at].hasNodes THEN mem[mem[at].nodes].items ELSE <<>>,
        hasEdges |-> mem[at].hasEdges,
        edges |-> IF mem[at].hasEdges THEN mem[mem[at].edges].items ELSE <<>>]

\* The objects of a graph value s, newly made (JSON.parse of the answer).
AllocGraph(mem, s) ==
  LET n == IF s.hasNodes THEN Alloc(mem, ArrayCell(s.nodes)) ELSE [mem |-> mem, at |-> 0]
      e == IF s.hasEdges THEN Alloc(n.mem, ArrayCell(s.edges)) ELSE [mem |-> n.mem, at |-> 0]
  IN Alloc(e.mem, GraphCell(s.hasNodes, n.at, s.hasEdges, e.at))

\* The service's answer s arrives as new objects.
AllocSnapshot(h, s) ==
  IF s.isNull THEN [h EXCEPT !.snap = 0]
  ELSE LET g == AllocGraph(h.mem, s) IN [h EXCEPT !.mem = g.mem, !.snap = g.at]

\* [...prevArray]: a new array with the same elements.
CopyOnHeap_Alias(mem, at) == [mem |-> mem, at |-> at]
CopyOnHeap(mem, at) == Alloc(mem, ArrayCell(mem[at].items))

\* prev?.nodes || [] and prev?.edges || []: the array of the previous graph,
\* a new empty array when there is no previous graph.
PrevArrayOnHeap(mem, at) ==
  IF at # 0 THEN [mem |-> mem, at |-> at] ELSE Alloc(mem, ArrayCell(<<>>))

\* The updater of mergeGraphData on the heap: push writes into the array
\* newNodes / newEdges names; the object returned becomes the store's graph.
MergeOnHeap(h) ==
  LET prevNodes == PrevArrayOnHeap(h.mem, IF h.prev = 0 THEN 0 ELSE h.mem[h.prev].nodes)
      prevEdges == PrevArrayOnHeap(prevNodes.mem,
                                   IF h.prev = 0 THEN 0 ELSE h.mem[h.prev].edges)
  IN IF h.snap = 0
       THEN LET r == Alloc(prevEdges.mem, GraphCell(TRUE, prevNodes.at, TRUE, prevEdges.at))
            IN [h EXCEPT !.mem = r.mem, !.prev = r.at]
       ELSE LET newData == h.mem[h.snap]
                newNodes == CopyOnHeap(prevEdges.mem, prevNodes.at)
                newEdges == CopyOnHeap(newNodes.mem, prevEdges.at)
                m0 == newEdges.mem
                m1 == IF newData.hasNodes
                        THEN [m0 EXCEPT ![newNodes.at].items =
                                PushNodes(@, m0[newData.nodes].items, 1)]
                        ELSE m0
                m2 == IF newData.hasEdges
                        THEN [m1 EXCEPT ![newEdges.at].items =
                                PushEdges(@, m1[newData.edges].items, 1)]
                        ELSE m1
                r == Alloc(m2, GraphCell(TRUE, newNodes.at, TRUE, newEdges.at))
            IN [h EXCEPT !.mem = r.mem, !.prev = r.at]

\* Garbage collection once the continuation has returned: only the store's
\* graph and its arrays are left, at the lowest addresses.
Collect(h) ==
  IF h.prev = 0 THEN EmptyHeap
  ELSE LET g == AllocGraph(<<>>, Deref(h.mem, h.prev))
       IN [mem |-> g.mem, prev |-> g.at, snap |-> 0]

VARIABLES
  mindMapData,       \* App: useState<MindMapData | null>(null)
  newData,           \* the answer of the service a continuation is handling
  phase,             \* of that continuation: "idle", "answered", "merged"
  activeTab,         \* AssetSidebar: the tab shown; the board lives in "graph"
  nodes,             \* MindMap: the node buffer
  zoom,              \* MindMap: zoom, in tenths
  pan,               \* MindMap: camera offset in pixels
  selectedNode,      \* MindMap: <<>> for null, <<node>> otherwise
  isDraggingCanvas,
  dragStart,
  draggedNodeId,
  animationRef,      \* MindMap: animationRef.current, 0 when unset
  rafQueue,          \* browser: pending animation-frame callbacks
  pointer,           \* browser: where the mouse is
  ticks,             \* number of simulate calls so far
  gestures,          \* number of pointer-downs and clicks so far
  variant,           \* which MindMap component the build has: "force", "radial"
  deepDives,         \* the calls of onNodeClick so far, with what the host sent
  pressed,           \* history: pointer and pan at the last pointer-down on the canvas
  heap               \* the objects of the graph store, by address

storeVars == <<mindMapData, newData, phase>>
cameraVars == <<zoom, pan, selectedNode, isDraggingCanvas, dragStart, draggedNodeId>>
loopVars == <<nodes, animationRef, rafQueue>>
boardVars == <<cameraVars, loopVars>>
counters == <<ticks, gestures>>
auxVars == <<variant, deepDives, pressed, heap>>
vars == <<storeVars, activeTab, boardVars, pointer, counters, auxVars>>

\* ------------------------------------------------------- MindMap: effect
\* const hasData = data && data.nodes && data.nodes.length > 0
HasData(data) == ~data.isNull /\ data.hasNodes /\ Len(data.nodes) > 0

\* AssetSidebar renders <MindMap> when the graph tab is active and
\* mindMapData is not null.
MountedWith(tab, data) == tab = "graph" /\ ~data.isNull
Mounted == MountedWith(activeTab, mindMapData)

\* The canvas element exists (neither placeholder is shown).
CanvasRendered == Mounted /\ HasData(mindMapData) /\ nodes # <<>>

\* centerX, centerY of the effect, in units of 1/Scale.  containerRef.current
\* is null while a placeholder is shown; the window size is used then.
Center(canvas) ==
  IF canvas
    THEN Vec(TDiv(ClientWidth * Scale, 2), TDiv(ClientHeight * Scale, 2))
    ELSE Vec(TDiv(InnerWidth * 4 * Scale, 20), TDiv(InnerHeight * 6 * Scale, 20))

\* data.nodes.map((n, i) => ({...n, x: n.x || ..., y: n.y || ..., vx: 0, vy: 0}))
InitialNodes_KeepPlaced(dataNodes, c) ==
  [h \in 1..Len(dataNodes) |->
     LET n == dataNodes[h]
         i == h - 1
         radius == 50 + 10 * i
     IN IF \E j \in 1..Len(nodes) : nodes[j].id = n.id
          THEN nodes[CHOOSE j \in 1..Len(nodes) : nodes[j].id = n.id]
          ELSE SimNode(n,
                 IF n.x # 0 THEN n.x ELSE c.x + TDiv(CosHalf(i) * radius * Scale, 10000),
                 IF n.y # 0 THEN n.y ELSE c.y + TDiv(SinHalf(i) * radius * Scale, 10000))]
InitialNodes(dataNodes, c) ==
  [h \in 1..Len(dataNodes) |->
     LET n == dataNodes[h]
         i == h - 1
         radius == 50 + 10 * i
     IN SimNode(n,
          IF n.x # 0 THEN n.x ELSE c.x + TDiv(CosHalf(i) * radius * Scale, 10000),
          IF n.y # 0 THEN n.y ELSE c.y + TDiv(SinHalf(i) * radius * Scale, 10000))]

\* requestAnimationFrame returns an id no pending callback has.
NewFrameId(queue) ==
  CHOOSE id \in 1..(Cardinality(queue) + 1) : \A f \in queue : f.id # id

\* return () => { if (animationRef.current) cancelAnimationFrame(animationRef.current) }
Cleanup_NoCancel(queue, ref) == queue
Cleanup(queue, ref) == {f \in queue : f.id # ref}

\* The body of the physics effect, run for prop `data` after the cleanup of
\* the previous run left `queue` pending.
RunEffect_EarlyReturn(data, canvas, queue) ==
  IF ~HasData(data)
    THEN /\ nodes' = nodes
         /\ rafQueue' = queue
         /\ animationRef' = animationRef
    ELSE LET c == Center(canvas)
             id == NewFrameId(queue)
         IN /\ nodes' = InitialNodes(data.nodes, c)
            /\ rafQueue' = queue \cup
                 {[id |-> id, edges |-> data.edges, dragged |-> draggedNodeId,
                   cx |-> c.x, cy |-> c.y]}
            /\ animationRef' = id
RunEffect(data, canvas, queue) ==
  IF ~HasData(data)
    THEN /\ nodes' = <<>>
         /\ rafQueue' = queue
         /\ animationRef' = animationRef
    ELSE LET c == Center(canvas)
             id == NewFrameId(queue)
         IN /\ nodes' = InitialNodes(data.nodes, c)
            /\ rafQueue' = queue \cup
                 {[id |-> id, edges |-> data.edges, dragged |-> draggedNodeId,
                   cx |-> c.x, cy |-> c.y]}
            /\ animationRef' = id

\* useState initial values of a newly mounted MindMap.
FreshCamera ==
  /\ zoom' = 8
  /\ pan' = Vec(0, 0)
  /\ selectedNode' = <<>>
  /\ isDraggingCanvas' = FALSE
  /\ dragStart' = Vec(0, 0)
  /\ draggedNodeId' = NoId

\* What the force-directed board does when the host renders with tab' and
\* data'.
ForceRenders(tab, data) ==
  IF MountedWith(tab, data)
    THEN IF Mounted
           THEN \* prop data changed: cleanup, then the effect runs again
                /\ RunEffect(data, nodes # <<>>, Cleanup(rafQueue, animationRef))
                /\ UNCHANGED cameraVars
           ELSE \* first mount: fresh state, a placeholder is on screen
                /\ FreshCamera
                /\ RunEffect(data, FALSE, rafQueue)
    ELSE IF Mounted
           THEN \* unmount: cleanup, the component's state is gone
                /\ FreshCamera
                /\ nodes' = <<>>
                /\ rafQueue' = Cleanup(rafQueue, animationRef)
                /\ animationRef' = 0
           ELSE UNCHANGED boardVars

\* ------------------------------------------ MindMap, radial (MindMap.tsx)
\* A node of the radial board's buffer: a clone of the data node, placed.
RadialNode(n, x, y) == [id |-> n.id, label |-> n.label, x |-> x, y |-> y]

\* Math.cos(index * angleStep) and Math.sin(index * angleStep) for
\* angleStep = 2 * Math.PI / count, in units of 1/10000.
RadialCos(index, count) ==
  CASE count = 1 -> 10000
    [] count = 2 -> IF index = 0 THEN 10000 ELSE -10000
    [] OTHER -> IF index = 0 THEN 10000 ELSE -5000
RadialSin(index, count) ==
  CASE count = 1 -> 0
    [] count = 2 -> 0
    [] OTHER -> IF index = 0 THEN 0 ELSE IF index = 1 THEN 8660 ELSE -8660

\* The layout effect: the first node is the centre (no node of the snapshots
\* has type 'case'), the others lie on a ring of radius 220, every second
\* one 50 further out.  Nodes with the centre's id are left unplaced.
RadialLayout(dataNodes) ==
  LET centerX == 400 * Scale
      centerY == 300 * Scale
      caseId == dataNodes[1].id
      others == {h \in 1..Len(dataNodes) : dataNodes[h].id # caseId}
      count == Cardinality(others)
  IN [h \in 1..Len(dataNodes) |->
        IF h = 1 THEN RadialNode(dataNodes[h], centerX, centerY)
        ELSE IF h \notin others THEN RadialNode(dataNodes[h], dataNodes[h].x, dataNodes[h].y)
        ELSE LET index == Cardinality({g \in others : g < h})
                 r == 220 + (IF index % 2 = 0 THEN 0 ELSE 50)
             IN RadialNode(dataNodes[h],
                  centerX + TDiv(r * Scale * RadialCos(index, count), 10000),
                  centerY + TDiv(r * Scale * RadialSin(index, count), 10000))]

\* if (!data || !data.nodes || !data.nodes.length) return; the buffer keeps
\* what it had.
RadialEffect(data, buffer) ==
  IF HasData(data) THEN RadialLayout(data.nodes) ELSE buffer

\* useState initial values of a newly mounted radial MindMap.
RadialFreshCamera ==
  /\ zoom' = 10
  /\ pan' = Vec(0, 0)
  /\ selectedNode' = <<>>
  /\ isDraggingCanvas' = FALSE
  /\ dragStart' = Vec(0, 0)
  /\ draggedNodeId' = NoId

\* What the radial board does when the host renders with tab' and data'.
RadialRenders(tab, data) ==
  /\ UNCHANGED <<animationRef, rafQueue>>
  /\ IF MountedWith(tab, data)
       THEN IF Mounted
              THEN nodes' = RadialEffect(data, nodes) /\ UNCHANGED cameraVars
              ELSE nodes' = RadialEffect(data, <<>>) /\ RadialFreshCamera
       ELSE IF Mounted
              THEN nodes' = <<>> /\ RadialFreshCamera
              ELSE UNCHANGED <<nodes, cameraVars>>

\* What the component returns: the no-data placeholder, the loading
\* placeholder (force-directed board only) or the board with its canvas.
Screen ==
  IF ~Mounted THEN "none"
  ELSE IF ~HasData(mindMapData) THEN "no-data"
  ELSE IF variant = "force" /\ nodes = <<>> THEN "loading"
  ELSE "canvas"

\* AssetSidebar renders the MindMap component of the build.
HostRenders(tab, data) ==
  IF variant = "force" THEN ForceRenders(tab, data) ELSE RadialRenders(tab, data)

\* ---------------------------------------------------------- host actions
\* The analysis service answers a request with snapshot s; the answer waits
\* for its continuation to run.
ServiceResponds(s) ==
  /\ phase = "idle"
  /\ newData' = s
  /\ phase' = "answered"
  /\ UNCHANGED <<mindMapData, activeTab, boardVars, pointer, counters>>

\* mergeGraphData(snapshot): React renders the host with the new graph object
\* and the board's effect runs for it.
ApplyMerge(snapshot) ==
  /\ mindMapData' = mergeGraphData(mindMapData, snapshot)
  /\ HostRenders(activeTab, mindMapData')
  /\ UNCHANGED <<activeTab, pointer, counters>>

\* The continuation of the answer calls mergeGraphData(data).
CallMergeGraphData ==
  /\ phase = "answered"
  /\ phase' = "merged"
  /\ UNCHANGED newData
  /\ ApplyMerge(newData)

\* The continuation returns; its local `data` is gone.
ContinuationReturns ==
  /\ phase = "merged"
  /\ phase' = "idle"
  /\ newData' = NullData
  /\ UNCHANGED <<mindMapData, activeTab, boardVars, pointer, counters>>

\* handleGenerateMindMap taken as one step, from the answer s of the service
\* to its return.
HandleGenerateMindMap(s) ==
  /\ phase = "idle"
  /\ UNCHANGED <<newData, phase>>
  /\ ApplyMerge(s)

\* handleGenerateMindMap of the host that overwrites: setMindMapData(data).
ReplaceMindMapData(s) ==
  /\ phase = "idle"
  /\ mindMapData' = s
  /\ HostRenders(activeTab, s)
  /\ UNCHANGED <<newData, phase, activeTab, pointer, counters>>

\* setActiveTab(t) in AssetSidebar.
SetActiveTab(t) ==
  /\ t # activeTab
  /\ activeTab' = t
  /\ HostRenders(t, mindMapData)
  /\ UNCHANGED <<storeVars, pointer, counters>>

\* --------------------------------------------------------- animation loop
\* animationRef.current = requestAnimationFrame(simulate) at the end of
\* simulate is unconditional: no state of the buffer ends the loop.
Reschedules_UntilAtRest(ns) == \E i \in 1..Len(ns) : ns[i].vx # 0 \/ ns[i].vy # 0
Reschedules(ns) == TRUE

\* The browser runs the pending callback f: simulate.
Tick(f) ==
  /\ f \in rafQueue
  /\ nodes' = IF Mounted
                THEN Simulate(nodes, f.edges, f.dragged, f.cx, f.cy)
                ELSE nodes
  /\ LET rest == rafQueue \ {f}
         id == NewFrameId(rest)
     IN IF Reschedules(nodes')
          THEN /\ rafQueue' = rest \cup {[f EXCEPT !.id = id]}
               /\ animationRef' = id
          ELSE /\ rafQueue' = rest
               /\ animationRef' = animationRef
  /\ UNCHANGED <<storeVars, activeTab, cameraVars, pointer, gestures>>

\* ------------------------------------------------------ pointer handlers
\* mouseX = (e.clientX - rect.left - pan.x) / zoom, in units of 1/Scale
ToSimulation_NoPan(screen, origin, offset, z) ==
  TDiv((screen - origin) * Scale * 10, z)
ToSimulation(screen, origin, offset, z) ==
  TDiv((screen - origin - offset) * Scale * 10, z)

\* transform: translate(pan) scale(zoom) with origin top-left: the place on
\* the canvas of a simulation coordinate, in units of 1/(10 * Scale) pixel.
ToScreen(sim, offset, z) == sim * z + offset * Scale * 10

HandleCanvasMouseDown ==
  /\ CanvasRendered
  /\ isDraggingCanvas' = TRUE
  /\ dragStart' = Vec(pointer.x - pan.x, pointer.y - pan.y)
  /\ UNCHANGED <<storeVars, activeTab, zoom, pan, selectedNode, draggedNodeId,
                 loopVars, pointer, ticks>>

\* The node element exists: if (!node.x || !node.y) return null
NodeRendered_XOnly(node) == node.x # 0
NodeRendered(node) == node.x # 0 /\ node.y # 0

\* if (!source || !target || !source.x || !target.x) return null
EdgeRendered(ns, edge) ==
  LET source == FindById(ns, edge.source)
      target == FindById(ns, edge.target)
  IN /\ source # 0
     /\ target # 0
     /\ ns[source].x # 0
     /\ ns[target].x # 0

HandleNodeMouseDown(i) ==
  /\ CanvasRendered
  /\ i \in 1..Len(nodes)
  /\ NodeRendered(nodes[i])
  /\ draggedNodeId' = nodes[i].id
  /\ selectedNode' = <<nodes[FindById(nodes, nodes[i].id)]>>
  /\ UNCHANGED <<storeVars, activeTab, zoom, pan, isDraggingCanvas, dragStart,
                 loopVars, pointer, ticks>>

\* { x: e.clientX - dragStart.x, y: e.clientY - dragStart.y }
PanAt_ZoomScaled(p) ==
  Vec(TDiv((p.x - dragStart.x) * 10, zoom), TDiv((p.y - dragStart.y) * 10, zoom))
PanAt(p) == Vec(p.x - dragStart.x, p.y - dragStart.y)

HandleMouseMove(p) ==
  /\ CanvasRendered
  /\ pointer' = p
  /\ pan' = IF isDraggingCanvas THEN PanAt(p) ELSE pan
  /\ nodes' = IF draggedNodeId # NoId
                THEN [i \in 1..Len(nodes) |->
                        IF nodes[i].id = draggedNodeId
                          THEN [nodes[i] EXCEPT
                                  !.x = ToSimulation(p.x, RectLeft, pan.x, zoom),
                                  !.y = ToSimulation(p.y, RectTop, pan.y, zoom),
                                  !.vx = 0, !.vy = 0]
                          ELSE nodes[i]]
                ELSE nodes
  /\ UNCHANGED <<storeVars, activeTab, zoom, selectedNode, isDraggingCanvas,
                 dragStart, draggedNodeId, animationRef, rafQueue, counters>>

\* onMouseUp and onMouseLeave of the canvas
HandleMouseUp ==
  /\ CanvasRendered
  /\ isDraggingCanvas' = FALSE
  /\ draggedNodeId' = NoId
  /\ UNCHANGED <<storeVars, activeTab, zoom, pan, selectedNode, dragStart,
                 loopVars, pointer, counters>>

\* onClick of a node element
NodeClick(i) ==
  /\ CanvasRendered
  /\ i \in 1..Len(nodes)
  /\ NodeRendered(nodes[i])
  /\ selectedNode' = <<nodes[i]>>
  /\ UNCHANGED <<storeVars, activeTab, zoom, pan, isDraggingCanvas, dragStart,
                 draggedNodeId, loopVars, pointer, ticks>>

\* The X button of the detail panel
CloseDetailPanel ==
  /\ CanvasRendered
  /\ selectedNode # <<>>
  /\ selectedNode' = <<>>
  /\ UNCHANGED <<storeVars, activeTab, zoom, pan, isDraggingCanvas, dragStart,
                 draggedNodeId, loopVars, pointer, counters>>

\* setZoom(z => Math.max(0.3, z - 0.1))
ZoomOut ==
  /\ CanvasRendered
  /\ zoom' = IF zoom - 1 < 3 THEN 3 ELSE zoom - 1
  /\ UNCHANGED <<storeVars, activeTab, pan, selectedNode, isDraggingCanvas,
                 dragStart, draggedNodeId, loopVars, pointer, ticks>>

\* setZoom(z => Math.min(3, z + 0.1))
ZoomIn ==
  /\ CanvasRendered
  /\ zoom' = IF zoom + 1 > 30 THEN 30 ELSE zoom + 1
  /\ UNCHANGED <<storeVars, activeTab, pan, selectedNode, isDraggingCanvas,
                 dragStart, draggedNodeId, loopVars, pointer, ticks>>

\* ------------------------------------------- radial board: its handlers
\* The radial board shows its canvas.
RadialCanvasRendered == Mounted /\ HasData(mindMapData)

\* handleMouseDown of the canvas; a pointer-down on a node reaches it too
RadialHandleMouseDown ==
  /\ RadialCanvasRendered
  /\ isDraggingCanvas' = TRUE
  /\ dragStart' = Vec(pointer.x - pan.x, pointer.y - pan.y)
  /\ UNCHANGED <<storeVars, activeTab, zoom, pan, selectedNode, draggedNodeId,
                 loopVars, pointer, ticks>>

RadialHandleMouseMove(p) ==
  /\ RadialCanvasRendered
  /\ pointer' = p
  /\ pan' = IF isDraggingCanvas THEN PanAt(p) ELSE pan
  /\ UNCHANGED <<storeVars, activeTab, zoom, selectedNode, isDraggingCanvas,
                 dragStart, draggedNodeId, loopVars, counters>>

\* onMouseUp and onMouseLeave of the canvas
RadialHandleMouseUp ==
  /\ RadialCanvasRendered
  /\ isDraggingCanvas' = FALSE
  /\ UNCHANGED <<storeVars, activeTab, zoom, pan, selectedNode, dragStart,
                 draggedNodeId, loopVars, pointer, counters>>

\* onClick of a node element
RadialNodeClick(i) ==
  /\ RadialCanvasRendered
  /\ i \in 1..Len(nodes)
  /\ NodeRendered(nodes[i])
  /\ selectedNode' = <<nodes[i]>>
  /\ UNCHANGED <<storeVars, activeTab, zoom, pan, isDraggingCanvas, dragStart,
                 draggedNodeId, loopVars, pointer, ticks>>

\* The X button of the detail panel
RadialCloseDetailPanel ==
  /\ RadialCanvasRendered
  /\ selectedNode # <<>>
  /\ selectedNode' = <<>>
  /\ UNCHANGED <<storeVars, activeTab, zoom, pan, isDraggingCanvas, dragStart,
                 draggedNodeId, loopVars, pointer, counters>>

\* setZoom(z => Math.max(0.5, z - 0.1))
RadialZoomOut ==
  /\ RadialCanvasRendered
  /\ zoom' = IF zoom - 1 < 5 THEN 5 ELSE zoom - 1
  /\ UNCHANGED <<storeVars, activeTab, pan, selectedNode, isDraggingCanvas,
                 dragStart, draggedNodeId, loopVars, pointer, ticks>>

\* setZoom(z => Math.min(2, z + 0.1))
RadialZoomIn_Unclamped ==
  /\ RadialCanvasRendered
  /\ zoom' = zoom + 1
  /\ UNCHANGED <<storeVars, activeTab, pan, selectedNode, isDraggingCanvas,
                 dragStart, draggedNodeId, loopVars, pointer, ticks>>
RadialZoomIn ==
  /\ RadialCanvasRendered
  /\ zoom' = IF zoom + 1 > 20 THEN 20 ELSE zoom + 1
  /\ UNCHANGED <<storeVars, activeTab, pan, selectedNode, isDraggingCanvas,
                 dragStart, draggedNodeId, loopVars, pointer, ticks>>

\* ------------------------------------------------ detail panel: deep dive
\* {selectedNode && (...)}: the detail panel is part of the board's return.
PanelShown == selectedNode # <<>> /\ Screen = "canvas"

\* The host's onNodeClick: executeCommand(`Tell me about ${node.label}`)
HostCommand(node) == "Tell me about " \o node.label

\* onClick={() => onNodeClick(selectedNode)}
DeepDiveArgument_FirstNode == nodes[1]
DeepDiveArgument == selectedNode[1]

\* The Deep Dive Query button of the detail panel (both boards).
DeepDive ==
  /\ PanelShown
  /\ Len(deepDives) < MaxDeepDives
  /\ deepDives' = Append(deepDives,
                     [node |-> DeepDiveArgument, cmd |-> HostCommand(DeepDiveArgument)])
  /\ UNCHANGED <<storeVars, activeTab, boardVars, pointer, counters,
                 variant, pressed, heap>>

\* ---------------------------------------------------------- specifications
Init ==
  /\ mindMapData = NullData
  /\ newData = NullData
  /\ phase = "idle"
  /\ activeTab = "analysis"
  /\ nodes = <<>>
  /\ zoom = 8
  /\ pan = Vec(0, 0)
  /\ selectedNode = <<>>
  /\ isDraggingCanvas = FALSE
  /\ dragStart = Vec(0, 0)
  /\ draggedNodeId = NoId
  /\ animationRef = 0
  /\ rafQueue = {}
  /\ pointer = Vec(120, 164)
  /\ ticks = 0
  /\ gestures = 0
  /\ variant = "force"
  /\ deepDives = <<>>
  /\ pressed = [p0 |-> Vec(0, 0), P0 |-> Vec(0, 0)]
  /\ heap = EmptyHeap

\* The length of a run: the animation frames the browser gets to run and the
\* pointer-downs and clicks the user makes.
CountTick == ticks < MaxTicks /\ ticks' = ticks + 1
CountGesture == gestures < MaxGestures /\ gestures' = gestures + 1

\* A step that calls no callback of the host and is not followed on the heap.
Quiet == UNCHANGED auxVars

Next ==
  \/ Quiet /\ \E s \in BoardSnapshots : HandleGenerateMindMap(s)
  \/ Quiet /\ \E t \in {"analysis", "graph"} : SetActiveTab(t)
  \/ Quiet /\ CountTick /\ \E f \in rafQueue : Tick(f)
  \/ Quiet /\ CountGesture /\ HandleCanvasMouseDown
  \/ Quiet /\ CountGesture /\ \E i \in 1..Len(nodes) : HandleNodeMouseDown(i)
  \/ Quiet /\ \E p \in Pointers : HandleMouseMove(p)
  \/ Quiet /\ HandleMouseUp
  \/ Quiet /\ CountGesture /\ \E i \in 1..Len(nodes) : NodeClick(i)
  \/ Quiet /\ CloseDetailPanel
  \/ Quiet /\ CountGesture /\ ZoomOut
  \/ Quiet /\ CountGesture /\ ZoomIn

Spec == Init /\ [][Next]_vars

\* The graph store alone: the board is never shown, every snapshot of the
\* universe may arrive.
NextMerge ==
  \/ Quiet /\ \E s \in SnapshotUniverse : ServiceResponds(s)
  \/ Quiet /\ CallMergeGraphData
  \/ Quiet /\ ContinuationReturns

SpecMerge == Init /\ [][NextMerge]_vars

\* The graph store fed with answers whose node entries may lack the id or
\* the label (the response schema requires neither).
IngestUniverse ==
  {DataNode("a", "Alice"), DataNode("b", "Bob"),
   DataNode(Undef, "Carol"), DataNode("c", Undef)}

IngestSnapshots == {Graph(ns, <<>>) : ns \in SeqsUpTo(IngestUniverse, 2)}

NextIngest ==
  \/ Quiet /\ \E s \in IngestSnapshots : ServiceResponds(s)
  \/ Quiet /\ CallMergeGraphData
  \/ Quiet /\ ContinuationReturns

SpecIngest == Init /\ [][NextIngest]_vars

\* Either build of the board, before anything is shown.
InitBuild ==
  /\ mindMapData = NullData
  /\ newData = NullData
  /\ phase = "idle"
  /\ activeTab = "analysis"
  /\ nodes = <<>>
  /\ variant \in {"force", "radial"}
  /\ zoom = (IF variant = "force" THEN 8 ELSE 10)
  /\ pan = Vec(0, 0)
  /\ selectedNode = <<>>
  /\ isDraggingCanvas = FALSE
  /\ dragStart = Vec(0, 0)
  /\ draggedNodeId = NoId
  /\ animationRef = 0
  /\ rafQueue = {}
  /\ pointer = Vec(120, 164)
  /\ ticks = 0
  /\ gestures = 0
  /\ deepDives = <<>>
  /\ pressed = [p0 |-> Vec(0, 0), P0 |-> Vec(0, 0)]
  /\ heap = EmptyHeap

\* The zoom buttons of either board, clicked up to MaxZoomClicks times.
CountZoomClick == gestures < MaxZoomClicks /\ gestures' = gestures + 1

NextZoom ==
  \/ Quiet /\ \E s \in BoardSnapshots : HandleGenerateMindMap(s)
  \/ Quiet /\ \E t \in {"analysis", "graph"} : SetActiveTab(t)
  \/ Quiet /\ variant = "force" /\ CountZoomClick /\ ZoomOut
  \/ Quiet /\ variant = "force" /\ CountZoomClick /\ ZoomIn
  \/ Quiet /\ variant = "radial" /\ CountZoomClick /\ RadialZoomOut
  \/ Quiet /\ variant = "radial" /\ CountZoomClick /\ RadialZoomIn

SpecZoom == InitBuild /\ [][NextZoom]_vars

\* A session at either board: up to MaxSessionGestures pointer-downs and
\* clicks, with the pointer and the pan of each pointer-down on the canvas
\* remembered.
CountSession == gestures < MaxSessionGestures /\ gestures' = gestures + 1
Press ==
  /\ pressed' = [p0 |-> pointer, P0 |-> pan]
  /\ UNCHANGED <<variant, deepDives, heap>>

SessionSnapshots ==
  {Graph(<<DataNode("a", "Alice"), DataNode("b", "Bob")>>,
         <<DataEdge("a", "b", "knows")>>)}

NextSession ==
  \/ Quiet /\ \E s \in SessionSnapshots : HandleGenerateMindMap(s)
  \/ Quiet /\ \E t \in {"analysis", "graph"} : SetActiveTab(t)
  \/ Press /\ variant = "force" /\ CountSession /\ HandleCanvasMouseDown
  \/ Quiet /\ variant = "force" /\ CountSession
       /\ \E i \in 1..Len(nodes) : HandleNodeMouseDown(i)
  \/ Quiet /\ variant = "force" /\ \E p \in Pointers : HandleMouseMove(p)
  \/ Quiet /\ variant = "force" /\ HandleMouseUp
  \/ Quiet /\ variant = "force" /\ CountSession
       /\ \E i \in 1..Len(nodes) : NodeClick(i)
  \/ Quiet /\ variant = "force" /\ CloseDetailPanel
  \/ Quiet /\ variant = "force" /\ CountSession /\ ZoomOut
  \/ Quiet /\ variant = "force" /\ CountSession /\ ZoomIn
  \/ Press /\ variant = "radial" /\ CountSession /\ RadialHandleMouseDown
  \/ Quiet /\ variant = "radial" /\ \E p \in Pointers : RadialHandleMouseMove(p)
  \/ Quiet /\ variant = "radial" /\ RadialHandleMouseUp
  \/ Quiet /\ variant = "radial" /\ CountSession
       /\ \E i \in 1..Len(nodes) : RadialNodeClick(i)
  \/ Quiet /\ variant = "radial" /\ RadialCloseDetailPanel
  \/ Quiet /\ variant = "radial" /\ CountSession /\ RadialZoomOut
  \/ Quiet /\ variant = "radial" /\ CountSession /\ RadialZoomIn

SpecSession == InitBuild /\ [][NextSession]_vars

\* Either board with its detail panel: one gesture, the frames of the force
\* board, and the Deep Dive Query button.  On the force board the pointer
\* moves to one position only, which keeps the drags followed by frames few.
NextDeepDive ==
  \/ Quiet /\ \E s \in SessionSnapshots : HandleGenerateMindMap(s)
  \/ Quiet /\ \E t \in {"analysis", "graph"} : SetActiveTab(t)
  \/ Quiet /\ CountTick /\ \E f \in rafQueue : Tick(f)
  \/ Quiet /\ variant = "force" /\ CountGesture /\ HandleCanvasMouseDown
  \/ Quiet /\ variant = "force" /\ CountGesture
       /\ \E i \in 1..Len(nodes) : HandleNodeMouseDown(i)
  \/ Quiet /\ variant = "force" /\ HandleMouseMove(Vec(260, 214))
  \/ Quiet /\ variant = "force" /\ HandleMouseUp
  \/ Quiet /\ variant = "force" /\ CountGesture
       /\ \E i \in 1..Len(nodes) : NodeClick(i)
  \/ Quiet /\ variant = "force" /\ CloseDetailPanel
  \/ Quiet /\ variant = "force" /\ CountGesture /\ ZoomIn
  \/ Quiet /\ variant = "radial" /\ CountGesture /\ RadialHandleMouseDown
  \/ Quiet /\ variant = "radial" /\ \E p \in Pointers : RadialHandleMouseMove(p)
  \/ Quiet /\ variant = "radial" /\ RadialHandleMouseUp
  \/ Quiet /\ variant = "radial" /\ CountGesture
       /\ \E i \in 1..Len(nodes) : RadialNodeClick(i)
  \/ Quiet /\ variant = "radial" /\ RadialCloseDetailPanel
  \/ Quiet /\ variant = "radial" /\ CountGesture /\ RadialZoomIn
  \/ DeepDive

SpecDeepDive == InitBuild /\ [][NextDeepDive]_vars

\* The force board left alone: the graph is generated and the tab chosen
\* before the first frame, then only frames run, SettleTicks of them.
CountSettleTick == ticks < SettleTicks /\ ticks' = ticks + 1

NextSettle ==
  \/ Quiet /\ ticks = 0 /\ \E s \in SessionSnapshots : HandleGenerateMindMap(s)
  \/ Quiet /\ ticks = 0 /\ \E t \in {"analysis", "graph"} : SetActiveTab(t)
  \/ Quiet /\ CountSettleTick /\ \E f \in rafQueue : Tick(f)

SpecSettle == Init /\ [][NextSettle]_vars

\* simulate alone, on two nodes whose initial coordinates are drawn from
\* ordinary and from very large finite numbers, with and without an edge.
StabilityXs == {Fin(2000), Fin(2600), Big(1000), Big(-1000)}
StabilityYs == {Fin(2400), Fin(3000)}
StabilityEdges == {<<>>, <<DataEdge("a", "b", "knows")>>}

PlacedNode(id, label, x, y) == [id |-> id, label |-> label, x |-> x, y |-> y]

StabilityGraphs ==
  {Graph(<<PlacedNode("a", "Alice", xa, ya), PlacedNode("b", "Bob", xb, yb)>>, es) :
     xa \in StabilityXs, ya \in StabilityYs,
     xb \in StabilityXs, yb \in StabilityYs, es \in StabilityEdges}

\* initialNodes of the effect when every node brings its coordinates.
PlacedNodes(dataNodes) ==
  [h \in 1..Len(dataNodes) |->
     [id |-> dataNodes[h].id, label |-> dataNodes[h].label,
      x |-> dataNodes[h].x, y |-> dataNodes[h].y, vx |-> Fin(0), vy |-> Fin(0)]]

InitStability ==
  /\ mindMapData \in StabilityGraphs
  /\ nodes = PlacedNodes(mindMapData.nodes)
  /\ newData = NullData
  /\ phase = "idle"
  /\ activeTab = "graph"
  /\ zoom = 8
  /\ pan = Vec(0, 0)
  /\ selectedNode = <<>>
  /\ isDraggingCanvas = FALSE
  /\ dragStart = Vec(0, 0)
  /\ draggedNodeId = NoId
  /\ animationRef = 0
  /\ rafQueue = {}
  /\ pointer = Vec(120, 164)
  /\ ticks = 0
  /\ gestures = 0
  /\ variant = "force"
  /\ deepDives = <<>>
  /\ pressed = [p0 |-> Vec(0, 0), P0 |-> Vec(0, 0)]
  /\ heap = EmptyHeap

StabilityTick ==
  /\ ticks < MaxStabilityTicks
  /\ ticks' = ticks + 1
  /\ nodes' = NumSimulate(nodes, mindMapData.edges, draggedNodeId,
                          Center(TRUE).x, Center(TRUE).y)
  /\ UNCHANGED <<storeVars, activeTab, cameraVars, animationRef, rafQueue,
                 pointer, gestures, auxVars>>

NextStability == StabilityTick

SpecStability == InitStability /\ [][NextStability]_vars

\* The force board fed with answers whose nodes may bring coordinates of
\* their own (MindMapNode.x and .y are optional fields of the parsed JSON).
LayoutNodes ==
  {DataNode("a", "Alice"), DataNode("b", "Bob"),
   PlacedNode("c", "Carol", 1000, 1000), PlacedNode("d", "Dan", 1000, 1000)}

LayoutSnapshots == {Graph(ns, <<>>) : ns \in SeqsUpTo(LayoutNodes, 2)}

NextLayout ==
  \/ Quiet /\ \E s \in LayoutSnapshots : HandleGenerateMindMap(s)
  \/ Quiet /\ \E t \in {"analysis", "graph"} : SetActiveTab(t)
  \/ Quiet /\ CountTick /\ \E f \in rafQueue : Tick(f)

SpecLayout == Init /\ [][NextLayout]_vars

\* The force board running without a bound on its frames: ticks is the
\* parity of the number of frames run, and the browser keeps delivering the
\* animation frames that were requested.
FrameParity == ticks' = (ticks + 1) % 2

LoopFrame == Quiet /\ FrameParity /\ \E f \in rafQueue : Tick(f)

NextLoop ==
  \/ Quiet /\ \E s \in SessionSnapshots : HandleGenerateMindMap(s)
  \/ Quiet /\ \E t \in {"analysis", "graph"} : SetActiveTab(t)
  \/ LoopFrame

\* LoopFrame is enabled exactly while a frame is requested and is the only
\* step that changes ticks: FrameDue states its fairness without the frame's
\* arithmetic.
FrameDue == rafQueue # {} /\ FrameParity

SpecLoop == Init /\ [][NextLoop]_vars /\ WF_ticks(FrameDue)

\* The force board fed with answers whose edges may name ids that no node
\* has.
DanglingEdges ==
  {DataEdge("a", "b", "knows"), DataEdge("a", "z", "knows"),
   DataEdge("z", "b", "knows"), DataEdge("z", "w", "knows")}

DanglingSnapshots ==
  {Graph(<<DataNode("a", "Alice"), DataNode("b", "Bob")>>, es) :
     es \in SeqsUpTo(DanglingEdges, 2)}

NextDangling ==
  \/ Quiet /\ \E s \in DanglingSnapshots : HandleGenerateMindMap(s)
  \/ Quiet /\ \E t \in {"analysis", "graph"} : SetActiveTab(t)
  \/ Quiet /\ CountTick /\ \E f \in rafQueue : Tick(f)

SpecDangling == Init /\ [][NextDangling]_vars

\* The force board on a chain of three nodes, given in one array order or
\* in the opposite one: frames and node drags.
OrderEdges == <<DataEdge("a", "b", "knows"), DataEdge("b", "c", "pays")>>
OrderSnapshots ==
  {Graph(<<DataNode("a", "Alice"), DataNode("b", "Bob"), DataNode("c", "Carol")>>,
         OrderEdges),
   Graph(<<DataNode("c", "Carol"), DataNode("b", "Bob"), DataNode("a", "Alice")>>,
         OrderEdges)}

NextOrder ==
  \/ Quiet /\ \E s \in OrderSnapshots : HandleGenerateMindMap(s)
  \/ Quiet /\ \E t \in {"analysis", "graph"} : SetActiveTab(t)
  \/ Quiet /\ CountTick /\ \E f \in rafQueue : Tick(f)
  \/ Quiet /\ CountGesture /\ \E i \in 1..Len(nodes) : HandleNodeMouseDown(i)
  \/ Quiet /\ \E p \in Pointers : HandleMouseMove(p)
  \/ Quiet /\ HandleMouseUp

SpecOrder == Init /\ [][NextOrder]_vars

\* The force board on a graph one of whose nodes arrives with x: 0 and
\* another with y: 0, the pointer reaching the left and the top edge of the
\* canvas, where the simulation coordinate of an unmoved camera is 0.
ZeroSnapshots ==
  {Graph(<<DataNode("a", "Alice"),
           PlacedNode("c", "Carol", 0, 1000),
           PlacedNode("d", "Dan", 1000, 0)>>,
         <<DataEdge("a", "c", "knows"), DataEdge("c", "d", "pays")>>)}

ZeroPointers == {Vec(RectLeft, 214), Vec(260, RectTop)}

NextZero ==
  \/ Quiet /\ \E s \in ZeroSnapshots : HandleGenerateMindMap(s)
  \/ Quiet /\ \E t \in {"analysis", "graph"} : SetActiveTab(t)
  \/ Quiet /\ CountTick /\ \E f \in rafQueue : Tick(f)
  \/ Quiet /\ CountGesture /\ \E i \in 1..Len(nodes) : HandleNodeMouseDown(i)
  \/ Quiet /\ \E p \in ZeroPointers : HandleMouseMove(p)
  \/ Quiet /\ HandleMouseUp

SpecZero == Init /\ [][NextZero]_vars

\* The force board while answers are merged into the store, the store's
\* objects followed on the heap: frames and node drags happen between the
\* merges.
NextRemerge ==
  \/ \E s \in BoardSnapshots :
       /\ ServiceResponds(s)
       /\ heap' = AllocSnapshot(heap, s)
       /\ UNCHANGED <<variant, deepDives, pressed>>
  \/ /\ CallMergeGraphData
     /\ heap' = MergeOnHeap(heap)
     /\ UNCHANGED <<variant, deepDives, pressed>>
  \/ /\ ContinuationReturns
     /\ heap' = Collect(heap)
     /\ UNCHANGED <<variant, deepDives, pressed>>
  \/ Quiet /\ \E t \in {"analysis", "graph"} : SetActiveTab(t)
  \/ Quiet /\ CountTick /\ \E f \in rafQueue : Tick(f)
  \/ Quiet /\ CountGesture /\ \E i \in 1..Len(nodes) : HandleNodeMouseDown(i)
  \/ Quiet /\ \E p \in Pointers : HandleMouseMove(p)
  \/ Quiet /\ HandleMouseUp

SpecRemerge == Init /\ [][NextRemerge]_vars

\* The board under the host that overwrites the graph: a graph can be
\* followed by an empty one.
ReplaceSnapshots ==
  {NoArrays,
   Graph(<<>>, <<>>),
   Graph(<<DataNode("a", "Alice")>>, <<>>),
   Graph(<<DataNode("a", "Alice"), DataNode("b", "Bob")>>,
         <<DataEdge("a", "b", "knows")>>)}

NextReplace ==
  \/ Quiet /\ \E s \in ReplaceSnapshots : ReplaceMindMapData(s)
  \/ Quiet /\ \E t \in {"analysis", "graph"} : SetActiveTab(t)
  \/ Quiet /\ CountTick /\ \E f \in rafQueue : Tick(f)
  \/ Quiet /\ variant = "force" /\ CountGesture
       /\ \E i \in 1..Len(nodes) : HandleNodeMouseDown(i)
  \/ Quiet /\ variant = "force" /\ \E p \in Pointers : HandleMouseMove(p)
  \/ Quiet /\ variant = "force" /\ HandleMouseUp

SpecReplace == InitBuild /\ [][NextReplace]_vars

\* The graph store followed on the heap.
HeapSnapshots ==
  {s \in SnapshotUniverse : Len(s.nodes) <= 1 /\ Len(s.edges) <= 1}

NextHeap ==
  \/ \E s \in HeapSnapshots :
       /\ ServiceResponds(s)
       /\ heap' = AllocSnapshot(heap, s)
       /\ UNCHANGED <<variant, deepDives, pressed>>
  \/ /\ CallMergeGraphData
     /\ heap' = MergeOnHeap(heap)
     /\ UNCHANGED <<variant, deepDives, pressed>>
  \/ /\ ContinuationReturns
     /\ heap' = Collect(heap)
     /\ UNCHANGED <<variant, deepDives, pressed>>

SpecHeap == Init /\ [][NextHeap]_vars

\* ------------------------------------------------------------ properties
A == DataNode("a", "Alice")
B == DataNode("b", "Bob")
AB == DataEdge("a", "b", "knows")

IsPrefix(s, t) == Len(s) <= Len(t) /\ SubSeq(t, 1, Len(s)) = s

\* The elements of seq at the indices in keep, in the order of seq.
RECURSIVE PickFrom(_, _, _)
PickFrom(seq, keep, k) ==
  IF k > Len(seq) THEN <<>>
  ELSE (IF k \in keep THEN <<seq[k]>> ELSE <<>>) \o PickFrom(seq, keep, k + 1)
Pick(seq, keep) == PickFrom(seq, keep, 1)

\* prev?.nodes || [], prev?.edges || []
PrevNodes == IF mindMapData.isNull THEN <<>> ELSE mindMapData.nodes
PrevEdges == IF mindMapData.isNull THEN <<>> ELSE mindMapData.edges

\* A step that is a call of mergeGraphData(newData), and a step that is a
\* call of simulate.
MergeStep == phase = "answered" /\ phase' = "merged"
TickStep == ticks' # ticks

\* The nodes of the buffer that the render's draggedNodeId names.
DraggedIndices == {i \in 1..Len(nodes) : nodes[i].id = draggedNodeId}

\* C1: a simulation tick that runs while a node is under pointer drag leaves
\* that node's x, y, vx and vy unchanged, whenever the drag started.
C1_TickLeavesDraggedNode ==
  [][(TickStep /\ draggedNodeId # NoId)
       => \A i \in DraggedIndices : nodes'[i] = nodes[i]]_vars

\* The dragged node sits at the inverse camera transform of the pointer with
\* zero velocity.
PinnedAtPointer ==
  \A i \in DraggedIndices :
    /\ nodes[i].x = ToSimulation(pointer.x, RectLeft, pan.x, zoom)
    /\ nodes[i].y = ToSimulation(pointer.y, RectTop, pan.y, zoom)
    /\ nodes[i].vx = 0
    /\ nodes[i].vy = 0

\* C2: drag pinning: once a pointer-move has put the dragged node at the
\* inverse camera transform of the pointer with velocity (0,0), it is still
\* there after every simulation tick of that drag.
C2_DragPinning ==
  [][(TickStep /\ draggedNodeId # NoId /\ draggedNodeId' = draggedNodeId
        /\ PinnedAtPointer) => PinnedAtPointer']_vars

\* C3: edge validity: the graph handed to the board has no edge whose source
\* or target is not the id of one of its nodes.
C3_EdgeValidity ==
  \A k \in 1..Len(PrevEdges) :
    /\ \E i \in 1..Len(PrevNodes) : PrevNodes[i].id = PrevEdges[k].source
    /\ \E i \in 1..Len(PrevNodes) : PrevNodes[i].id = PrevEdges[k].target

\* C4: when the graph given to the mounted board is replaced by another
\* graph, every node gets its initial position and zero velocity, pan is
\* (0,0), zoom is the initial zoom, and selection and drag are cleared.
C4_SwapResetsBoard ==
  [][(Mounted /\ Mounted' /\ mindMapData' # mindMapData)
       => /\ \E canvas \in BOOLEAN :
               nodes' = InitialNodes(mindMapData'.nodes, Center(canvas))
          /\ pan' = Vec(0, 0)
          /\ zoom' = 8
          /\ selectedNode' = <<>>
          /\ draggedNodeId' = NoId
          /\ isDraggingCanvas' = FALSE]_vars

\* C5: at most one animation-frame callback is pending; none is pending
\* while the board is not mounted; the pending callback is the one
\* animationRef names and it closes over the edges of the current graph.
C5_SingleLoop ==
  /\ Cardinality(rafQueue) <= 1
  /\ ~Mounted => rafQueue = {}
  /\ \A f \in rafQueue : f.id = animationRef /\ f.edges = mindMapData.edges

\* A loop started by a replacement of the graph of a mounted board (only
\* then is the canvas centre in use) has ticked.
C5_Witness ==
  /\ Mounted
  /\ ticks > 0
  /\ \E f \in rafQueue : f.cx = Center(TRUE).x /\ Len(f.edges) = 1

\* C6: merge idempotence: merging a graph into itself yields the same nodes
\* and the same edges, in the same order.
C6_MergeIdempotent ==
  /\ ~newData.isNull =>
       /\ mergeGraphData(newData, newData).nodes = newData.nodes
       /\ mergeGraphData(newData, newData).edges = newData.edges
  /\ ~mindMapData.isNull =>
       mergeGraphData(mindMapData, mindMapData) = mindMapData

\* A snapshot that repeats an id and repeats an edge pair.
C6_Witness ==
  /\ phase = "answered"
  /\ Len(newData.nodes) = 2
  /\ newData.nodes[1].id = newData.nodes[2].id
  /\ Len(newData.edges) = 2
  /\ EdgeMatches(newData.edges[1], newData.edges[2])

\* C7: merge additivity: the nodes and edges of the previous graph are a
\* prefix of the merged graph, for every snapshot, null and array-less
\* included.
C7_MergeAdditive ==
  [][MergeStep => /\ IsPrefix(PrevNodes, mindMapData'.nodes)
                  /\ IsPrefix(PrevEdges, mindMapData'.edges)]_vars

\* A graph of two nodes and two edges after a snapshot without arrays was
\* merged into it.
C7_Witness ==
  /\ phase = "merged"
  /\ newData = NoArrays
  /\ Len(mindMapData.nodes) = 2
  /\ Len(mindMapData.edges) = 2

\* C8: after any sequence of merges from no graph, node ids are pairwise
\* distinct; merging {A, B, A-B} into {A} gives two nodes and one edge.
C8_UniqueNodeIds ==
  /\ \A i, j \in 1..Len(PrevNodes) :
       i # j => PrevNodes[i].id # PrevNodes[j].id
  /\ mindMapData = Graph(<<A>>, <<>>) =>
       LET r == mergeGraphData(mindMapData, Graph(<<A, B>>, <<AB>>))
       IN Len(r.nodes) = 2 /\ Len(r.edges) = 1

\* Scenario C has run.
C8_Witness ==
  /\ phase = "merged"
  /\ newData = Graph(<<A, B>>, <<AB>>)
  /\ mindMapData = Graph(<<A, B>>, <<AB>>)

\* C9 as stated: the appended nodes are exactly the incoming nodes that
\* match no node of the existing graph by id or by label.
C9_AppendIffNoExistingMatch ==
  [][(MergeStep /\ newData.hasNodes)
       => mindMapData'.nodes =
            PrevNodes \o Pick(newData.nodes,
              {k \in 1..Len(newData.nodes) :
                 \A i \in 1..Len(PrevNodes) :
                   /\ PrevNodes[i].id # newData.nodes[k].id
                   /\ PrevNodes[i].label # newData.nodes[k].label})]_vars

\* C9 amended: an incoming node is appended if and only if no node of the
\* existing graph and no node appended earlier in the same call has the same
\* id or the same label; the appended nodes follow in incoming order.
C9_AppendIffNoEarlierMatch ==
  [][(MergeStep /\ newData.hasNodes)
       => \E keep \in SUBSET (1..Len(newData.nodes)) :
            /\ mindMapData'.nodes = PrevNodes \o Pick(newData.nodes, keep)
            /\ \A k \in 1..Len(newData.nodes) :
                 k \in keep <=>
                   /\ \A i \in 1..Len(PrevNodes) :
                        /\ PrevNodes[i].id # newData.nodes[k].id
                        /\ PrevNodes[i].label # newData.nodes[k].label
                   /\ \A j \in keep :
                        j < k => /\ newData.nodes[j].id # newData.nodes[k].id
                                 /\ newData.nodes[j].label # newData.nodes[k].label]_vars

\* A snapshot of two nodes with one label was merged and one node is there.
C9_Witness ==
  /\ phase = "merged"
  /\ newData.nodes = <<A, DataNode("b", "Alice")>>
  /\ mindMapData.nodes = <<A>>

\* C10: an incoming edge is appended if and only if no edge already present
\* (of the previous graph or appended earlier in the call) has the same
\* ordered (source, target) pair; the relation is not compared.
C10_EdgeAppendIffNewPair ==
  [][(MergeStep /\ newData.hasEdges)
       => \E keep \in SUBSET (1..Len(newData.edges)) :
            /\ mindMapData'.edges = PrevEdges \o Pick(newData.edges, keep)
            /\ \A k \in 1..Len(newData.edges) :
                 k \in keep <=>
                   /\ \A i \in 1..Len(PrevEdges) :
                        \/ PrevEdges[i].source # newData.edges[k].source
                        \/ PrevEdges[i].target # newData.edges[k].target
                   /\ \A j \in keep :
                        j < k => \/ newData.edges[j].source # newData.edges[k].source
                                 \/ newData.edges[j].target # newData.edges[k].target]_vars

\* An edge differing only in relation was not added, the reversed pair was.
C10_Witness ==
  /\ phase = "merged"
  /\ newData.edges = <<DataEdge("a", "b", "accuses"), DataEdge("b", "a", "knows")>>
  /\ mindMapData.edges = <<AB, DataEdge("b", "a", "knows")>>

\* The heap stands for the graphs the store and the continuation hold.
HeapFollowsStore ==
  /\ Deref(heap.mem, heap.prev) = mindMapData
  /\ phase # "idle" => Deref(heap.mem, heap.snap) = newData

\* Every object that existed before the step is the same after it.
InputsUntouched ==
  /\ Len(heap'.mem) >= Len(heap.mem)
  /\ \A at \in 1..Len(heap.mem) : heap'.mem[at] = heap.mem[at]

\* The object the store holds after the step did not exist before it.
ResultIsNewObject == heap'.prev > Len(heap.mem)

ResultHasNewArrays ==
  /\ heap'.mem[heap'.prev].nodes > Len(heap.mem)
  /\ heap'.mem[heap'.prev].edges > Len(heap.mem)
  /\ heap'.mem[heap'.prev].nodes # heap'.mem[heap'.prev].edges

C13_MalformedNodesDropped ==
  \A i \in 1..Len(PrevNodes) :
    PrevNodes[i].id # Undef /\ PrevNodes[i].label # Undef

\* The zoom range of the board of the build, in tenths.
ZoomRange == IF variant = "force" THEN 3..30 ELSE 5..20

\* C14: zoom stays within [0.3, 3.0] on the force-directed board and within
\* [0.5, 2.0] on the radial board; a click on a zoom button moves it by 0.1,
\* or leaves it at the bound it has reached.
C14_ZoomClamped ==
  /\ [](zoom \in ZoomRange)
  /\ [][(gestures' # gestures)
          => \/ zoom' \in {zoom - 1, zoom + 1}
             \/ zoom' = zoom /\ \E bound \in ZoomRange :
                                  /\ zoom = bound
                                  /\ {bound - 1, bound + 1} \ ZoomRange # {}]_vars

\* The force-directed board was zoomed in from 0.8 to 3.0 and the button was
\* clicked once more.
C14_Witness ==
  /\ variant = "force"
  /\ Mounted
  /\ zoom = 30
  /\ gestures = 23

\* C15: onNodeClick is invoked only by the Deep Dive Query button of the
\* detail panel, which is shown only while a node is selected; it receives
\* the selected node; the host forwards the text "Tell me about " followed
\* by the node's label and nothing else of the node; selecting, dragging,
\* panning, zooming, closing the panel and frames never invoke it, and the
\* invocation changes nothing on the board.
C15_DeepDiveOnly ==
  [][deepDives' # deepDives =>
       /\ selectedNode # <<>>
       /\ Screen = "canvas"
       /\ deepDives' = Append(deepDives,
                          [node |-> selectedNode[1],
                           cmd |-> "Tell me about " \o selectedNode[1].label])
       /\ UNCHANGED <<storeVars, activeTab, boardVars, pointer, counters>>]_vars

C15_Witness ==
  /\ Len(deepDives) = 1
  /\ deepDives[1].node.id = "b"
  /\ deepDives[1].cmd = "Tell me about Bob"
  /\ selectedNode # <<>>

\* A pointer-up on the force board that ends a gesture begun on the empty
\* canvas (only there does a pointer-down reach handleCanvasMouseDown).
CanvasRelease ==
  /\ variant = "force"
  /\ Screen = "canvas"
  /\ isDraggingCanvas
  /\ draggedNodeId = NoId
  /\ ~isDraggingCanvas'
  /\ selectedNode # <<>>
  /\ HasData(mindMapData') /\ activeTab' = "graph"

\* C16: a pointer-down followed by a pointer-up on empty canvas with no
\* movement in between clears the selection; a pointer-up that ends a pan
\* (the pointer moved) leaves the selection unchanged.
C16_CanvasClickDeselects ==
  [][CanvasRelease =>
       IF pointer = pressed.p0 THEN selectedNode' = <<>>
       ELSE selectedNode' = selectedNode]_vars

\* The interaction state of the board, where it is one of the three.
InteractionState ==
  IF isDraggingCanvas /\ draggedNodeId # NoId THEN "Both"
  ELSE IF isDraggingCanvas THEN "PanningCanvas"
  ELSE IF draggedNodeId # NoId THEN "DraggingNode"
  ELSE "Idle"

\* C19: the pointer handlers implement the machine Idle / PanningCanvas /
\* DraggingNode: the board is never panning the canvas and dragging a node
\* at the same time.
C19_ThreeStates == InteractionState \in {"Idle", "PanningCanvas", "DraggingNode"}

\* C20: while a pan is in progress the pan offset is P0 + (p - p0), with p0
\* and P0 the pointer and the pan at the pointer-down and p the pointer now,
\* in raw pixels whatever the zoom; outside a pan no step moves the offset
\* of a board that stays on screen.
C20_PanRawPixels ==
  /\ [](isDraggingCanvas /\ Screen = "canvas" =>
          pan = Vec(pressed.P0.x + (pointer.x - pressed.p0.x),
                    pressed.P0.y + (pointer.y - pressed.p0.y)))
  /\ [][(Screen = "canvas" /\ ~isDraggingCanvas
           /\ HasData(mindMapData') /\ activeTab' = "graph") => pan' = pan]_vars

C20_Witness ==
  /\ isDraggingCanvas
  /\ Screen = "canvas"
  /\ pointer # pressed.p0
  /\ pan # pressed.P0
  /\ zoom \notin {8, 10}

\* Distance between the first two nodes of the buffer, in 1/Scale pixels.
PairDistance ==
  Sqrt((nodes[1].x - nodes[2].x) * (nodes[1].x - nodes[2].x)
       + (nodes[1].y - nodes[2].y) * (nodes[1].y - nodes[2].y))

\* C18: two nodes joined by one edge, started from the initial layout and
\* left alone, are between 85 and 115 pixels apart after SettleTicks frames.
C18_PairSettlesAtIdealLength ==
  (ticks = SettleTicks /\ CanvasRendered /\ Len(nodes) = 2) =>
    /\ PairDistance >= 85 * Scale
    /\ PairDistance <= 115 * Scale

IsFinite(a) == a.c \in {"fin", "big"}
Within(a, limit) == a.c = "fin" /\ a.n >= -limit /\ a.n <= limit

\* C17: after N frames on nodes with finite initial coordinates and any
\* edges, every x, y, vx and vy is finite, no velocity component is outside
\* [-15, 15] and no coordinate is further than 15 * N from where it started.
C17_NumericallyStable ==
  \A i \in 1..Len(nodes) :
    /\ IsFinite(nodes[i].x) /\ IsFinite(nodes[i].y)
    /\ Within(nodes[i].vx, maxVelocity * Scale)
    /\ Within(nodes[i].vy, maxVelocity * Scale)
    /\ Within(NumSub(nodes[i].x, mindMapData.nodes[i].x), maxVelocity * ticks * Scale)
    /\ Within(NumSub(nodes[i].y, mindMapData.nodes[i].y), maxVelocity * ticks * Scale)

\* A step during which the force board stays on screen with its graph.
BoardStays ==
  /\ variant = "force"
  /\ Screen = "canvas"
  /\ activeTab' = "graph"
  /\ HasData(mindMapData')

\* Zoom-in, zoom-out, the start of a pan and a move of a pan.
CameraStep ==
  \/ zoom' # zoom
  \/ pan' # pan
  \/ (~isDraggingCanvas /\ isDraggingCanvas')

\* A pointer-move while a node is being dragged.
DragMoveStep == draggedNodeId # NoId /\ draggedNodeId' = draggedNodeId /\ pointer' # pointer

\* C21: zoom-in, zoom-out, pan start and pan moves leave every record of the
\* node buffer unchanged; a pointer-move during a node drag changes only the
\* dragged node's record and leaves pan, zoom and every other node unchanged.
C21_CameraLeavesBuffer ==
  [][BoardStays =>
       /\ (CameraStep => nodes' = nodes)
       /\ (DragMoveStep =>
             /\ pan' = pan
             /\ zoom' = zoom
             /\ Len(nodes') = Len(nodes)
             /\ \A i \in 1..Len(nodes) :
                   nodes[i].id # draggedNodeId => nodes'[i] = nodes[i])]_vars

\* center + (50 + 10 * i) * (cos(0.5 * i), sin(0.5 * i)), i counted from 0.
SpiralStart(i, c) ==
  Vec(c.x + TDiv(CosHalf(i) * (50 + 10 * i) * Scale, 10000),
      c.y + TDiv(SinHalf(i) * (50 + 10 * i) * Scale, 10000))

\* A step of the host that hands the board a graph object.
ReplacementStep == ticks' = ticks /\ activeTab' = activeTab

\* C22: on every graph replacement node i starts at the spiral point of its
\* index around the viewport center with velocity (0, 0), and no two nodes
\* start at the same point.
C22_SpiralStart ==
  [][(ReplacementStep /\ activeTab' = "graph" /\ HasData(mindMapData')) =>
       /\ Len(nodes') = Len(mindMapData'.nodes)
       /\ \E c \in {Center(TRUE), Center(FALSE)} :
             \A i \in 1..Len(nodes') :
               /\ nodes'[i].x = SpiralStart(i - 1, c).x
               /\ nodes'[i].y = SpiralStart(i - 1, c).y
               /\ nodes'[i].vx = 0
               /\ nodes'[i].vy = 0
       /\ \A i, j \in 1..Len(nodes') :
             i # j => <<nodes'[i].x, nodes'[i].y>> # <<nodes'[j].x, nodes'[j].y>>]_vars

\* C23: in every reachable state every velocity component is within
\* [-15, 15], and one frame moves a node by at most 15 on each axis.
C23_VelocityClamped ==
  /\ [](\A i \in 1..Len(nodes) :
          /\ Within(nodes[i].vx, maxVelocity * Scale)
          /\ Within(nodes[i].vy, maxVelocity * Scale))
  /\ [][\A i \in 1..Len(nodes) :
          /\ Within(NumSub(nodes'[i].x, nodes[i].x), maxVelocity * Scale)
          /\ Within(NumSub(nodes'[i].y, nodes[i].y), maxVelocity * Scale)]_vars

\* The buffer inside a frame, after the first k nodes have been integrated.
RECURSIVE PartialFrame(_, _)
PartialFrame(ns, k) ==
  IF k = 0 THEN ns
  ELSE LET before == PartialFrame(ns, k - 1)
       IN [before EXCEPT ![k] = NumIntegrate(before, k, mindMapData.edges,
                                             draggedNodeId,
                                             Center(TRUE).x, Center(TRUE).y)]

FinitePair(ns, i, j) ==
  /\ IsFinite(ns[i].x) /\ IsFinite(ns[i].y)
  /\ IsFinite(ns[j].x) /\ IsFinite(ns[j].y)

SamePlace(ns, i, j) == ns[i].x = ns[j].x /\ ns[i].y = ns[j].y

\* The repulsion of j on i is a number of magnitude at most 200000 / 100.
RepulsionBounded(ns, i, j) ==
  LET f == NumRepulsionOn(ns, i, j)
  IN /\ Within(f.x, (repulsion \div 100) * Scale)
     /\ Within(f.y, (repulsion \div 100) * Scale)
     /\ f.x.n * f.x.n + f.y.n * f.y.n
          <= (repulsion \div 100) * Scale * (repulsion \div 100) * Scale

\* C24: at every point of every frame the repulsion between two nodes at
\* finite positions is at most 2000 in magnitude, identical positions
\* included, and a spring between two nodes at the same position adds
\* nothing (no division takes place).
C24_RepulsionFloor ==
  \A k \in 0..Len(nodes) :
    LET ns == PartialFrame(nodes, k)
    IN \A i, j \in 1..Len(ns) :
         (i # j /\ FinitePair(ns, i, j)) =>
           /\ RepulsionBounded(ns, i, j)
           /\ SamePlace(ns, i, j) =>
                 \A e \in 1..Len(mindMapData.edges) :
                   NumSpringOn(ns, i, mindMapData.edges[e]) = Vec(Fin(0), Fin(0))

C24_Witness ==
  /\ ticks >= 1
  /\ Len(nodes) = 2
  /\ SamePlace(mindMapData.nodes, 1, 2)
  /\ Len(mindMapData.edges) = 1
  /\ FinitePair(nodes, 1, 2)
  /\ ~SamePlace(nodes, 1, 2)

\* C25: a frame leaves as many requested frames as it found (it requests
\* exactly one), and if the board stays on screen with its graph from some
\* point on, frames are run again and again for ever.
C25_LoopNeverHalts ==
  /\ [][(ticks' # ticks) => Cardinality(rafQueue') = Cardinality(rafQueue)]_vars
  /\ (<>[]CanvasRendered => []<><<ticks' # ticks>>_vars)

\* The buffer has come to rest away from its initial layout and a frame is
\* still requested.
C25_Witness ==
  /\ CanvasRendered
  /\ Cardinality(rafQueue) = 1
  /\ ticks = 1
  /\ \A i \in 1..Len(nodes) : nodes[i].vx = 0 /\ nodes[i].vy = 0
  /\ Simulate(nodes, mindMapData.edges, NoId, Center(TRUE).x, Center(TRUE).y) = nodes
  /\ nodes # InitialNodes(mindMapData.nodes, Center(TRUE))
  /\ nodes # InitialNodes(mindMapData.nodes, Center(FALSE))

\* The pointer's place on the canvas, in units of 1/(10 * Scale) pixel.
OnCanvas(client, origin) == (client - origin) * Scale * 10

\* C26: the render transform applied to the result of the drag transform
\* gives back the pointer's place on the canvas, to the resolution of the
\* buffer (1/Scale of a simulation unit), for the pan and zoom the two
\* transforms share; and the drag transform applied to the place where a
\* simulation point is drawn gives back the point.
C26_TransformsInverse ==
  /\ [][(BoardStays /\ DragMoveStep) =>
          \A i \in 1..Len(nodes) :
            nodes[i].id = draggedNodeId =>
              /\ (ToScreen(nodes'[i].x, pan.x, zoom) - OnCanvas(pointer'.x, RectLeft))
                   \in (1 - zoom)..(zoom - 1)
              /\ (ToScreen(nodes'[i].y, pan.y, zoom) - OnCanvas(pointer'.y, RectTop))
                   \in (1 - zoom)..(zoom - 1)]_vars
  /\ [](variant = "force" /\ CanvasRendered =>
          \A i \in 1..Len(nodes) :
            LET sx == ToScreen(nodes[i].x, pan.x, zoom)
                sy == ToScreen(nodes[i].y, pan.y, zoom)
            IN /\ sx % (Scale * 10) = 0 =>
                    ToSimulation(sx \div (Scale * 10) + RectLeft, RectLeft, pan.x, zoom)
                      = nodes[i].x
               /\ sy % (Scale * 10) = 0 =>
                    ToSimulation(sy \div (Scale * 10) + RectTop, RectTop, pan.y, zoom)
                      = nodes[i].y)

C26_Witness ==
  /\ variant = "force"
  /\ CanvasRendered
  /\ draggedNodeId # NoId
  /\ ~isDraggingCanvas
  /\ pan # Vec(0, 0)
  /\ pointer = Vec(260, 214)
  /\ \E i \in 1..Len(nodes) :
        /\ nodes[i].id = draggedNodeId
        /\ nodes[i].x = ToSimulation(pointer.x, RectLeft, pan.x, zoom)
        /\ nodes[i].y = ToSimulation(pointer.y, RectTop, pan.y, zoom)

\* The edge names an id that no node of the buffer has.
Dangling(ns, edge) ==
  \/ \A i \in 1..Len(ns) : ns[i].id # edge.source
  \/ \A i \in 1..Len(ns) : ns[i].id # edge.target

WithoutDangling(ns, edges) ==
  Pick(edges, {e \in 1..Len(edges) : ~Dangling(ns, edges[e])})

\* C27: a frame on a graph with edges whose source or target is no node's id
\* gives the buffer that the frame gives with those edges removed, and such
\* an edge is not drawn.
C27_DanglingEdgesInert ==
  /\ [][(TickStep /\ Mounted) =>
          \E f \in rafQueue :
            nodes' = Simulate(nodes, WithoutDangling(nodes, f.edges),
                              f.dragged, f.cx, f.cy)]_vars
  /\ [](CanvasRendered =>
          \A e \in 1..Len(mindMapData.edges) :
            Dangling(nodes, mindMapData.edges[e]) =>
              ~EdgeRendered(nodes, mindMapData.edges[e]))

C27_Witness ==
  /\ CanvasRendered
  /\ ticks = MaxTicks
  /\ \E e \in 1..Len(mindMapData.edges) : Dangling(nodes, mindMapData.edges[e])
  /\ \E e \in 1..Len(mindMapData.edges) : EdgeRendered(nodes, mindMapData.edges[e])
  /\ \E f \in rafQueue : f.edges = mindMapData.edges

\* The buffer is the initial layout of the graph around center c.
FreshLayout(c) ==
  /\ Len(nodes') = Len(mindMapData'.nodes)
  /\ \A i \in 1..Len(nodes') :
        /\ nodes'[i].id = mindMapData'.nodes[i].id
        /\ nodes'[i].x = SpiralStart(i - 1, c).x
        /\ nodes'[i].y = SpiralStart(i - 1, c).y
        /\ nodes'[i].vx = 0
        /\ nodes'[i].vy = 0

\* C28: every call of mergeGraphData gives the store a new graph object,
\* and a board on screen answers it by ending its loop and laying every
\* node out afresh with velocity (0, 0): the one loop left is the new one.
C28_MergeResetsBoard ==
  [][MergeStep =>
       /\ ResultIsNewObject
       /\ Mounted =>
             IF HasData(mindMapData')
               THEN /\ \E c \in {Center(TRUE), Center(FALSE)} : FreshLayout(c)
                    /\ Cardinality(rafQueue') = 1
                    /\ \A f \in rafQueue' :
                          /\ f.id = animationRef'
                          /\ f.edges = mindMapData'.edges
                          /\ f.dragged = draggedNodeId
               ELSE nodes' = <<>> /\ rafQueue' = {}]_vars

\* A merge that added nothing has just reset a board whose nodes had been
\* moved by frames and by a drag.
C28_Witness ==
  /\ phase = "merged"
  /\ Mounted
  /\ ticks = MaxTicks
  /\ gestures = 1
  /\ Len(nodes) = 2
  /\ newData.isNull
  /\ \A i \in 1..Len(nodes) :
        /\ nodes[i].x = SpiralStart(i - 1, Center(TRUE)).x
        /\ nodes[i].y = SpiralStart(i - 1, Center(TRUE)).y
        /\ nodes[i].vx = 0

\* The frame's copy as node i finds it: the nodes before i as the frame
\* leaves them, node i and the nodes after it as the frame found them.
SeenBy(i) == [j \in 1..Len(nodes) |-> IF j < i THEN nodes'[j] ELSE nodes[j]]

\* C29: within a tick the nodes are integrated in array order and in place:
\* node i's new record is computed from the new positions of the nodes
\* before it and the old positions of the nodes after it.
C29_InPlaceInOrder ==
  [][(TickStep /\ Mounted) =>
       \E f \in rafQueue :
         /\ Len(nodes') = Len(nodes)
         /\ \A i \in 1..Len(nodes) :
               nodes'[i] = Integrate(SeenBy(i), i, f.edges, f.dragged, f.cx, f.cy)]_vars

Reversed(seq) == [i \in 1..Len(seq) |-> seq[Len(seq) + 1 - i]]

\* The first frame of the chain has run: its result is not the one computed
\* from the old positions alone, the same nodes in the opposite array order
\* would have come out elsewhere, and the repulsion applied to the second
\* node by the first is not the opposite of the one applied to the first by
\* the second.
C29_Witness ==
  /\ CanvasRendered
  /\ ticks = 1
  /\ gestures = 0
  /\ Len(nodes) = 3
  /\ \E f \in rafQueue :
        LET start == InitialNodes(mindMapData.nodes, Vec(f.cx, f.cy))
            first == Integrate(start, 1, f.edges, f.dragged, f.cx, f.cy)
            onFirst == RepulsionOn(start, 1, 2)
            onSecond == RepulsionOn([start EXCEPT ![1] = first], 2, 1)
        IN /\ nodes = Simulate(start, f.edges, f.dragged, f.cx, f.cy)
           /\ \E i \in 1..3 :
                 nodes[i] # Integrate(start, i, f.edges, f.dragged, f.cx, f.cy)
           /\ Reversed(Simulate(Reversed(start), f.edges, f.dragged, f.cx, f.cy))
                 # nodes
           /\ (onFirst.x + onSecond.x # 0 \/ onFirst.y + onSecond.y # 0)

AtZero(node) == node.x = 0 \/ node.y = 0

\* The board is laid out: the graph changed or the tab was chosen.
LayoutStep ==
  /\ mindMapData' # mindMapData \/ activeTab' # activeTab
  /\ activeTab' = "graph"
  /\ HasData(mindMapData')

\* C30: a coordinate of exactly 0 counts as missing. A node whose x or y is
\* 0 is not drawn, an edge with an end whose x is 0 is not drawn, a node
\* that arrives with x or y 0 is laid out with the spiral's value for it,
\* and a node at 0 still repels every node that is not at its very place
\* and is integrated by the frame as any node is.
C30_ZeroIsMissing ==
  /\ [](CanvasRendered =>
          /\ \A i \in 1..Len(nodes) :
                NodeRendered(nodes[i]) <=> ~AtZero(nodes[i])
          /\ \A e \in 1..Len(mindMapData.edges) :
                LET edge == mindMapData.edges[e]
                IN (\E i \in 1..Len(nodes) :
                      /\ nodes[i].id \in {edge.source, edge.target}
                      /\ nodes[i].x = 0)
                     => ~EdgeRendered(nodes, edge))
  /\ [][LayoutStep =>
          \E c \in {Center(TRUE), Center(FALSE)} :
            \A i \in 1..Len(nodes') :
              LET n == mindMapData'.nodes[i]
              IN /\ n.x = 0 => nodes'[i].x = SpiralStart(i - 1, c).x
                 /\ n.y = 0 => nodes'[i].y = SpiralStart(i - 1, c).y]_vars
  /\ [][(TickStep /\ Mounted) =>
          \A i \in 1..Len(nodes) :
            AtZero(nodes[i]) =>
              /\ \A j \in 1..Len(nodes) :
                    (j # i /\ ~SamePlace(SeenBy(j), j, i))
                      => RepulsionOn(SeenBy(j), j, i) # Vec(0, 0)
              /\ \E f \in rafQueue :
                    nodes'[i] = Integrate(SeenBy(i), i, f.edges, f.dragged,
                                          f.cx, f.cy)]_vars

\* Alice was dragged to the left edge of the canvas, where her x is 0 and
\* neither she nor her edge is drawn, and the frame that followed moved her
\* and the others from there.
C30_Witness ==
  /\ CanvasRendered
  /\ ticks = 1
  /\ draggedNodeId = "a"
  /\ pointer = Vec(RectLeft, 214)
  /\ \E f \in rafQueue :
        LET start == InitialNodes(mindMapData.nodes, Vec(f.cx, f.cy))
            held == [k \in 1..Len(start) |->
                       IF k = 1
                         THEN [start[k] EXCEPT
                                 !.x = 0,
                                 !.y = ToSimulation(214, RectTop, pan.y, zoom)]
                         ELSE start[k]]
        IN /\ ~NodeRendered(held[1])
           /\ ~EdgeRendered(held, mindMapData.edges[1])
           /\ EdgeRendered(held, mindMapData.edges[2])
           /\ start[2].x # 0 /\ start[2].y = 1000
           /\ start[3].x = 1000 /\ start[3].y # 0
           /\ nodes = Simulate(held, f.edges, f.dragged, f.cx, f.cy)
           /\ nodes[1] # held[1]
           /\ RepulsionOn(held, 2, 1) # Vec(0, 0)

====
